---- MODULE Spec2Model ----
(***************************************************************************)
(* Model of src/audio_to_text/transcribe_audio.py: the pipeline that       *)
(* converts each input file to WAV, diarizes it, transcribes every speaker *)
(* turn (splitting oversized units into chunks) and writes one transcript  *)
(* per input file.                                                         *)
(*                                                                         *)
(* Representation.                                                         *)
(*  - A string is a sequence of tokens (one-character strings, or a whole  *)
(*    label such as "SPEAKER_00" taken as one token); concatenation is \o. *)
(*  - Turn times (float seconds in the code) are integers in microseconds, *)
(*    so that int(t * 1000) is a truncating division.                      *)
(*  - Segment times of a transcription result are integers in ms.          *)
(*  - A path is a tuple; an audio unit is a WAV file on disk, given by its *)
(*    path, its byte size (stat().st_size) and its duration in ms (len()). *)
(*  - None is the Python None, a record unlike every other value.         *)
(***************************************************************************)
EXTENDS Integers, Sequences, FiniteSets, TLC

None == [none |-> TRUE]

\* ------------------------------------------------------------------------
\* Bounds of the model
\* ------------------------------------------------------------------------
MaxFiles == 2
MaxTurns == 2
MaxChunks == 3

\* ------------------------------------------------------------------------
\* Program constants
\* ------------------------------------------------------------------------
WHISPER_API_LIMIT_BYTES == 24 * 1024 * 1024

\* if duracion_ms < 100
MIN_TURN_MS == 100

\* start_s * 1000: milliseconds per second; also microseconds per millisecond
\* in the integer representation of the float seconds.
MicrosPerMs == 1000

\* export(..., format="wav") of mono 16 kHz 16-bit PCM: a 44-byte RIFF header
\* followed by 16000 * 2 bytes per second of audio.
WavHeaderBytes == 44
WavBytesPerMs == (16000 * 2) \div 1000

WavSize(dur_ms) == WavHeaderBytes + WavBytesPerMs * dur_ms

\* ------------------------------------------------------------------------
\* Arithmetic and string helpers (Python built-ins)
\* ------------------------------------------------------------------------
Min(a, b) == IF a <= b THEN a ELSE b
Max(a, b) == IF a >= b THEN a ELSE b

\* math.ceil(a / b) and math.floor(a / b) for a >= 0, b > 0
CeilDiv(a, b) == (a + b - 1) \div b
FloorDiv(a, b) == a \div b

\* int(t * 1000) for a time t >= 0 held in microseconds
ToMs(t_us) == t_us \div MicrosPerMs

IsSpace(c) == c \in {" ", "\n", "\t"}

RECURSIVE LStrip(_)
LStrip(s) == IF s # <<>> /\ IsSpace(Head(s)) THEN LStrip(Tail(s)) ELSE s

RECURSIVE RStrip(_)
RStrip(s) ==
    IF s # <<>> /\ IsSpace(s[Len(s)]) THEN RStrip(SubSeq(s, 1, Len(s) - 1)) ELSE s

\* str.strip()
Strip(s) == RStrip(LStrip(s))

\* str.encode("latin-1", errors="ignore"): characters outside Latin-1 are dropped
IsLatin1(c) == c # "U+20AC"
EncodeLatin1(s) == SelectSeq(s, IsLatin1)

\* ------------------------------------------------------------------------
\* The transcription primitive's possible answers
\* ------------------------------------------------------------------------
Seg(s, e, t) == [start |-> s, end |-> e, text |-> t]

TextA == <<"a">>
TextB == <<" ", "b", "U+20AC">>

\* Responses of the service for an audio unit of d ms. ResIn keeps its
\* segments inside [0, d); ResEdge has a segment ending exactly at d; ResEmpty
\* is a successful answer without speech.
ResIn(d) ==
    [text |-> TextA, language |-> "es",
     segments |-> IF d < 2 THEN <<>>
                  ELSE <<Seg(0, d \div 2, TextA), Seg(d \div 2, d - 1, TextA)>>]
ResEdge(d) ==
    [text |-> TextB, language |-> "en", segments |-> <<Seg(0, d, TextB)>>]
ResEmpty == [text |-> <<>>, language |-> "es", segments |-> <<>>]

WhisperResults(d) == {ResIn(d), ResEdge(d), ResEmpty}

WhisperOutcomes(d) == {None} \cup WhisperResults(d)

\* ------------------------------------------------------------------------
\* State
\* ------------------------------------------------------------------------
VARIABLES
    \* procesar_directorio
    dir_entrada,            \* [is_dir, files]: the input directory
    di_pipeline,            \* TRUE iff the diarization pipeline was initialized
    tmp_deletable,          \* FALSE iff unlink() of a temporary file raises OSError
    archivos_audio,         \* list(dir_entrada.glob("*.*"))
    idx,                    \* position of the for loop over archivos_audio
    pc,                     \* program position
    texto_diarizado_final,
    ruta_wav,               \* the converted WAV on disk: [path, size, dur]
    audio_completo,         \* len() in ms of the loaded WAV, or None
    diarization_info,       \* None, or [turns |-> the yielded turns]
    turn_i,                 \* i of the enumerate() over the turns
    tmp,                    \* paths existing under the temporary directory
    storage,                \* output directory: path -> content
    completed,              \* "Proceso completado." was printed
    \* _transcribir_wav_con_chunking_opcional (one activation)
    ruta_archivo_wav,       \* the unit: [path, size, dur]
    dir_temporal_chunks,
    forzar_chunking,
    caller,                 \* where the activation returns to
    total_duration_ms,
    num_chunks,
    chunk_duration_ms,
    chunk_i,                \* i of the for loop over range(num_chunks)
    all_text,
    all_segments,
    last_successful_lang,
    ret,                    \* the value returned by the activation
    \* history (not read by the program)
    tmp_at_call,            \* tmp when the activation began
    dispatches,             \* calls of _transcribir_chunk_whisper of the activation
    chunk_log,              \* iterations of the chunk loop of the activation
    turn_log,               \* turns of the current file met by the turn loop
    save_log,               \* calls of guardar_transcripcion of the run
    status                  \* terminal state of each file already processed

pipeVars == <<dir_entrada, di_pipeline, tmp_deletable, archivos_audio, idx,
              texto_diarizado_final, ruta_wav, audio_completo, diarization_info, turn_i, storage, completed>>
trVars == <<ruta_archivo_wav, dir_temporal_chunks, forzar_chunking, caller,
            total_duration_ms, num_chunks, chunk_duration_ms, chunk_i, all_text,
            all_segments, last_successful_lang>>
histVars == <<turn_log, save_log, status>>
vars == <<pipeVars, trVars, histVars, pc, tmp, ret, tmp_at_call, dispatches, chunk_log>>

\* ------------------------------------------------------------------------
\* _transcribir_wav_con_chunking_opcional
\* ------------------------------------------------------------------------
Unit(path, size, dur) == [path |-> path, size |-> size, dur |-> dur]

\* The locals of an activation that has not run yet.
NoUnit == Unit(<<>>, 0, 0)

\* DirectPath with the limit excluded
DirectPath_exclusive(forzar, file_size) ==
    ~forzar /\ file_size < WHISPER_API_LIMIT_BYTES

\* line 122: transcribe directly when small and chunking is not forced
DirectPath(forzar, file_size) == ~forzar /\ file_size <= WHISPER_API_LIMIT_BYTES

\* NumChunks that rounds the quotient down
NumChunks_floor(file_size) ==
    IF file_size > WHISPER_API_LIMIT_BYTES
    THEN FloorDiv(file_size, WHISPER_API_LIMIT_BYTES)
    ELSE 1

\* lines 136-138
NumChunks(file_size) ==
    IF file_size > WHISPER_API_LIMIT_BYTES
    THEN CeilDiv(file_size, WHISPER_API_LIMIT_BYTES)
    ELSE 1

\* lines 140-143
ChunkDuration(total_ms, n) ==
    IF FloorDiv(total_ms, n) = 0 /\ n = 1 THEN total_ms ELSE FloorDiv(total_ms, n)

\* lines 156-157
ChunkStart(i, dur_ms) == i * dur_ms

\* ChunkEnd without the special case of the last chunk
ChunkEnd_uniform(i, dur_ms, n, total_ms) == (i + 1) * dur_ms

ChunkEnd(i, dur_ms, n, total_ms) ==
    IF i < n - 1 THEN (i + 1) * dur_ms ELSE total_ms

\* line 163: f"{ruta_archivo_wav.stem}_chunk_{i+1}.wav" in dir_temporal_chunks
ChunkFilename(dir, unit_path, i) == <<dir, unit_path, "chunk", i + 1>>

\* AdjustSegment that moves the start and forgets the end
AdjustSegment_start_only(seg, offset_ms) ==
    [seg EXCEPT !.start = offset_ms + seg.start]

\* lines 178-180: a copy of the segment with both times moved by the offset
AdjustSegment(seg, offset_ms) ==
    [seg EXCEPT !.start = offset_ms + seg.start, !.end = offset_ms + seg.end]

\* lines 176-181
AdjustedSegments(segs, offset_ms) ==
    [k \in 1..Len(segs) |-> AdjustSegment(segs[k], offset_ms)]

\* AppendText that puts the new text before the accumulated ones
AppendText_prepend(acc, text) == text \o <<" ">> \o acc

\* line 173
AppendText(acc, text) == acc \o text \o <<" ">>

\* NextLang that keeps the language of the first successful chunk
NextLang_first(last, r) == IF last = "unknown" THEN r.language ELSE last

\* line 174: chunk_result.get('language', last_successful_lang); the results of
\* the primitive always carry a language
NextLang(last, r) == r.language

\* lines 190-198: None when nothing was accumulated, else the combined result
Combine(text, segs, lang) ==
    IF text = <<>> THEN None
    ELSE [text |-> Strip(text), segments |-> segs, language |-> lang]

Dispatch(unit, r) ==
    [input |-> unit.path, size |-> unit.size, dur |-> unit.dur, result |-> r]

\* lines 118-124: one call of the primitive on the unit itself
TrDirect ==
    /\ pc = "tr_entry"
    /\ DirectPath(forzar_chunking, ruta_archivo_wav.size)
    /\ \E r \in WhisperOutcomes(ruta_archivo_wav.dur) :
          /\ ret' = r
          /\ dispatches' = Append(dispatches, Dispatch(ruta_archivo_wav, r))
    /\ pc' = caller
    /\ UNCHANGED <<pipeVars, trVars, histVars, tmp, chunk_log, tmp_at_call>>

\* TrChunkSetup without the test of lines 145-147
TrChunkSetup_noguard ==
    /\ pc = "tr_entry"
    /\ ~DirectPath(forzar_chunking, ruta_archivo_wav.size)
    /\ total_duration_ms' = ruta_archivo_wav.dur
    /\ num_chunks' = NumChunks(ruta_archivo_wav.size)
    /\ chunk_duration_ms' =
          ChunkDuration(ruta_archivo_wav.dur, NumChunks(ruta_archivo_wav.size))
    /\ chunk_i' = 0
    /\ all_text' = <<>>
    /\ all_segments' = <<>>
    /\ last_successful_lang' = "unknown"
    /\ pc' = "tr_loop"
    /\ UNCHANGED <<pipeVars, histVars, ruta_archivo_wav, dir_temporal_chunks,
                   forzar_chunking, caller, tmp, ret, dispatches, chunk_log,
                   tmp_at_call>>

\* lines 126-153: load the WAV and set the chunk loop up
TrChunkSetup ==
    /\ pc = "tr_entry"
    /\ ~DirectPath(forzar_chunking, ruta_archivo_wav.size)
    /\ \E load_ok \in BOOLEAN :
          LET total == ruta_archivo_wav.dur
              n == NumChunks(ruta_archivo_wav.size)
              d == ChunkDuration(total, n)
          IN  IF load_ok /\ d > 0
              THEN /\ total_duration_ms' = total
                   /\ num_chunks' = n
                   /\ chunk_duration_ms' = d
                   /\ chunk_i' = 0
                   /\ all_text' = <<>>
                   /\ all_segments' = <<>>
                   /\ last_successful_lang' = "unknown"
                   /\ pc' = "tr_loop"
                   /\ UNCHANGED ret
              ELSE /\ ret' = None
                   /\ pc' = caller
                   /\ UNCHANGED <<total_duration_ms, num_chunks, chunk_duration_ms,
                                  chunk_i, all_text, all_segments,
                                  last_successful_lang>>
    /\ UNCHANGED <<pipeVars, histVars, ruta_archivo_wav, dir_temporal_chunks,
                   forzar_chunking, caller, tmp, dispatches, chunk_log, tmp_at_call>>

ChunkEntry(i, s, e, outcome, r) ==
    [i |-> i, start_ms |-> s, end_ms |-> e, outcome |-> outcome, result |-> r]

\* ChunkIter whose interval fails and ends the loop
ChunkIter_abort ==
    /\ pc = "tr_loop"
    /\ chunk_i < num_chunks
    /\ chunk_log' = Append(chunk_log,
           ChunkEntry(chunk_i, ChunkStart(chunk_i, chunk_duration_ms),
                      ChunkEnd(chunk_i, chunk_duration_ms, num_chunks, total_duration_ms),
                      "export_failed", None))
    /\ chunk_i' = num_chunks
    /\ UNCHANGED <<pipeVars, histVars, ruta_archivo_wav, dir_temporal_chunks,
                   forzar_chunking, caller, total_duration_ms, num_chunks,
                   chunk_duration_ms, all_text, all_segments, last_successful_lang,
                   tmp, dispatches, pc, ret, tmp_at_call>>

\* lines 155-188: one iteration of the chunk loop
ChunkIter ==
    /\ pc = "tr_loop"
    /\ chunk_i < num_chunks
    /\ LET start_ms == ChunkStart(chunk_i, chunk_duration_ms)
           end_ms == ChunkEnd(chunk_i, chunk_duration_ms, num_chunks, total_duration_ms)
           chunk_filename ==
               ChunkFilename(dir_temporal_chunks, ruta_archivo_wav.path, chunk_i)
           chunk == Unit(chunk_filename, WavSize(end_ms - start_ms), end_ms - start_ms)
       IN  IF start_ms >= end_ms
           THEN /\ chunk_log' =
                      Append(chunk_log, ChunkEntry(chunk_i, start_ms, end_ms, "empty", None))
                /\ UNCHANGED <<all_text, all_segments, last_successful_lang, tmp,
                               dispatches>>
           ELSE \E export_ok \in BOOLEAN :
                  IF ~export_ok
                  THEN /\ chunk_log' = Append(chunk_log,
                              ChunkEntry(chunk_i, start_ms, end_ms, "export_failed", None))
                       /\ UNCHANGED <<all_text, all_segments, last_successful_lang, tmp,
                                      dispatches>>
                  ELSE \E r \in WhisperOutcomes(chunk.dur) :
                         /\ dispatches' = Append(dispatches, Dispatch(chunk, r))
                         /\ chunk_log' = Append(chunk_log,
                                ChunkEntry(chunk_i, start_ms, end_ms, "dispatched", r))
                         /\ IF r # None
                            THEN /\ all_text' = AppendText(all_text, r.text)
                                 /\ last_successful_lang' =
                                        NextLang(last_successful_lang, r)
                                 /\ all_segments' = all_segments \o
                                        AdjustedSegments(r.segments, start_ms)
                            ELSE UNCHANGED <<all_text, all_segments,
                                             last_successful_lang>>
                         /\ tmp' = IF tmp_deletable THEN tmp \ {chunk_filename}
                                   ELSE tmp \cup {chunk_filename}
    /\ chunk_i' = chunk_i + 1
    /\ UNCHANGED <<pipeVars, histVars, ruta_archivo_wav, dir_temporal_chunks,
                   forzar_chunking, caller, total_duration_ms, num_chunks,
                   chunk_duration_ms, pc, ret, tmp_at_call>>

\* lines 190-200: after the loop
TrCombine ==
    /\ pc = "tr_loop"
    /\ chunk_i = num_chunks
    /\ ret' = Combine(all_text, all_segments, last_successful_lang)
    /\ pc' = caller
    /\ UNCHANGED <<pipeVars, trVars, histVars, tmp, dispatches, chunk_log, tmp_at_call>>

Transcribe == TrDirect \/ TrChunkSetup \/ ChunkIter \/ TrCombine

\* ------------------------------------------------------------------------
\* Paths
\* ------------------------------------------------------------------------
\* A file name is the sequence of its dot-separated parts: a.b.mp3 is
\* <<"a", "b", "mp3">>.
File(name, is_file) == [name |-> name, is_file |-> is_file]

\* Path.stem: the name without its last suffix
Stem(name) == IF Len(name) > 1 THEN SubSeq(name, 1, Len(name) - 1) ELSE name

\* Path.with_suffix(s): the last suffix, if any, replaced by s
WithSuffix(name, suffix) == Stem(name) \o suffix

\* dir_entrada.glob("*.*"): the entries whose name has a dot
HasDot(f) == Len(f.name) > 1
Glob(files) == SelectSeq(files, HasDot)

\* lines 78-79: dir_temporal / (stem + ".wav")
WavPath(name) == <<"wav", Stem(name) \o <<"wav">>>>

\* line 362: dir_temporal_turnos / f"{ruta_wav.stem}_turn_{i+1}.wav"
TurnPath(wav_path, i) == <<"turn_chunks", Stem(wav_path[2]), "turn", i + 1>>

\* line 303: dir_salida / ruta_audio.stem
NombreBaseSalida(name) == Stem(name)

\* line 265: ruta_salida_base.with_suffix(".diarized.txt")
RutaSalida(base) == WithSuffix(base, <<"diarized", "txt">>)

\* ------------------------------------------------------------------------
\* Inputs of a run
\* ------------------------------------------------------------------------
Turn(speaker, start_us, end_us) ==
    [speaker |-> speaker, start |-> start_us, end |-> end_us]

Sec == 1000 * MicrosPerMs

\* What the diarizer may yield for a file, in the order it yields it.
TurnSeqs ==
    { ts \in { <<>>,
               <<Turn("SPEAKER_00", 0, 5 * Sec)>>,
               <<Turn("SPEAKER_01", 500, 100200)>>,
               <<Turn("SPEAKER_01", 6 * Sec, 900 * Sec)>>,
               <<Turn("SPEAKER_00", 0, 5 * Sec), Turn("SPEAKER_01", 5 * Sec, 5050000)>>,
               <<Turn("SPEAKER_01", 5 * Sec, 9 * Sec), Turn("SPEAKER_00", 0, 5 * Sec)>>,
               <<Turn("SPEAKER_00", 0, 5 * Sec), Turn("SPEAKER_01", 5 * Sec, 5050000),
                 Turn("SPEAKER_02", 6 * Sec, 40 * Sec)>> } :
      Len(ts) <= MaxTurns }

\* Durations in ms of the converted WAV of an input file: 40 s, and 15 min
\* (28.8 MB, above the limit).
FileDurations == {40000, 900000}

DirListings ==
    { fs \in { <<>>,
               <<File(<<"a", "mp3">>, TRUE)>>,
               <<File(<<"README">>, TRUE), File(<<"sub", "d">>, FALSE)>>,
               <<File(<<"a", "mp3">>, TRUE), File(<<"a", "wav">>, TRUE)>>,
               <<File(<<"sub", "d">>, FALSE), File(<<"a", "b", "mp3">>, TRUE)>>,
               <<File(<<"a", "b", "mp3">>, TRUE), File(<<"README">>, TRUE),
                 File(<<"a", "mp3">>, TRUE)>> } :
      Len(fs) <= MaxFiles }

\* Units given to _transcribir_wav_con_chunking_opcional on its own: the
\* empty WAV, 3 s, the longest whole-millisecond WAV under the limit, a WAV
\* of exactly the limit (its last millisecond is partial), the shortest WAV
\* above the limit, a 30 MB file of 10 minutes, WAVs needing 3 and 4
\* chunks, and the longest WAV whose size is under twice the limit.
UnitInputs ==
    { u \in { Unit(<<"u", 0>>, WavSize(0), 0),
              Unit(<<"u", 1>>, WavSize(3000), 3000),
              Unit(<<"u", 2>>, WavSize(786430), 786430),
              Unit(<<"u", 3>>, WHISPER_API_LIMIT_BYTES, 786431),
              Unit(<<"u", 4>>, WavSize(786431), 786431),
              Unit(<<"u", 5>>, 30 * 1024 * 1024, 600000),
              Unit(<<"u", 6>>, WavSize(1572863), 1572863),
              Unit(<<"u", 7>>, WavSize(2359297), 2359297),
              Unit(<<"u", 8>>, WavSize(1572862), 1572862) } :
      NumChunks(u.size) <= MaxChunks }

\* ------------------------------------------------------------------------
\* procesar_directorio
\* ------------------------------------------------------------------------
ruta_audio == archivos_audio[idx]

SKIPPED == "SkippedWithError"
DONE == "Done"

\* The number of turns of the log that gave a line.
LinesOf(log) == Cardinality({k \in 1..Len(log) : log[k].outcome = "line"})

\* How the file at idx ended: its terminal state, the route it took
\* ("convert_failed", "load_failed", "fallback", "diarized") and the number of
\* its turns that gave a line.
SetStatus(st, route) ==
    status' = [i \in DOMAIN status \cup {idx} |->
                 IF i = idx
                 THEN [state |-> st, route |-> route, lines |-> LinesOf(turn_log)]
                 ELSE status[i]]

\* The locals of the transcriber before an activation.
TrBlank ==
    /\ ruta_archivo_wav' = NoUnit
    /\ dir_temporal_chunks' = ""
    /\ forzar_chunking' = FALSE
    /\ caller' = ""
    /\ total_duration_ms' = 0
    /\ num_chunks' = 0
    /\ chunk_duration_ms' = 0
    /\ chunk_i' = 0
    /\ all_text' = <<>>
    /\ all_segments' = <<>>
    /\ last_successful_lang' = ""

\* A call _transcribir_wav_con_chunking_opcional(unit, dir, forzar) that
\* returns to `back`, made when the temporary files are `files`.
Call(unit, dir, forzar, back, files) ==
    /\ ruta_archivo_wav' = unit
    /\ dir_temporal_chunks' = dir
    /\ forzar_chunking' = forzar
    /\ caller' = back
    /\ total_duration_ms' = 0
    /\ num_chunks' = 0
    /\ chunk_duration_ms' = 0
    /\ chunk_i' = 0
    /\ all_text' = <<>>
    /\ all_segments' = <<>>
    /\ last_successful_lang' = ""
    /\ dispatches' = <<>>
    /\ chunk_log' = <<>>
    /\ tmp_at_call' = files
    /\ ret' = None
    /\ pc' = "tr_entry"

\* lines 284-297
Start ==
    /\ pc = "start"
    /\ LET found == IF dir_entrada.is_dir THEN Glob(dir_entrada.files) ELSE <<>>
       IN  /\ archivos_audio' = found
           /\ IF found = <<>>
              THEN pc' = "returned" /\ UNCHANGED idx
              ELSE pc' = "for_file" /\ idx' = 1
    /\ UNCHANGED <<dir_entrada, di_pipeline, tmp_deletable, texto_diarizado_final, ruta_wav,
                   audio_completo, diarization_info, turn_i, storage, completed,
                   trVars, histVars, tmp, ret, dispatches, chunk_log, tmp_at_call>>

\* ForFile that goes on to the next entry although the file at idx was not
\* processed
ForFile_overtake ==
    /\ pc = "for_file"
    /\ idx <= Len(archivos_audio)
    /\ idx' = idx + 1
    /\ UNCHANGED <<dir_entrada, di_pipeline, tmp_deletable, archivos_audio, storage,
                   completed, texto_diarizado_final, ruta_wav, audio_completo,
                   diarization_info, turn_i, trVars, histVars, pc, tmp, ret,
                   dispatches, chunk_log, tmp_at_call>>

\* lines 299-304: the next entry of archivos_audio. The locals that the
\* previous iteration left behind (ruta_wav, audio_completo, diarization_info,
\* the turn index) are dead here, each is assigned before it is read again:
\* they are unbound in the model.
ForFile ==
    /\ pc = "for_file"
    /\ idx <= Len(archivos_audio)
    /\ IF ~ruta_audio.is_file
       THEN /\ idx' = idx + 1
            /\ UNCHANGED <<pc, texto_diarizado_final, ruta_wav, audio_completo,
                           diarization_info, turn_i, turn_log>>
       ELSE /\ pc' = "convert"
            /\ texto_diarizado_final' = <<>>
            /\ ruta_wav' = NoUnit
            /\ audio_completo' = 0
            /\ diarization_info' = None
            /\ turn_i' = 0
            /\ turn_log' = <<>>
            /\ UNCHANGED idx
    /\ UNCHANGED <<dir_entrada, di_pipeline, tmp_deletable, archivos_audio, storage, completed,
                   trVars, save_log, status, tmp, ret, dispatches, chunk_log, tmp_at_call>>

\* lines 306-312 and convertir_a_wav (lines 68-97)
Convert ==
    /\ pc = "convert"
    /\ \/ \E dur \in FileDurations :
            /\ ruta_wav' = Unit(WavPath(ruta_audio.name), WavSize(dur), dur)
            /\ tmp' = tmp \cup {WavPath(ruta_audio.name)}
            /\ pc' = "load"
            /\ UNCHANGED <<idx, status>>
       \/ /\ SetStatus(SKIPPED, "convert_failed")
          /\ idx' = idx + 1
          /\ pc' = "for_file"
          /\ UNCHANGED <<ruta_wav, tmp>>
    /\ UNCHANGED <<dir_entrada, di_pipeline, tmp_deletable, archivos_audio, texto_diarizado_final,
                   audio_completo, diarization_info, turn_i, storage, completed,
                   trVars, turn_log, save_log, ret, dispatches, chunk_log, tmp_at_call>>

\* LoadWav without the try/except of lines 315-320: the exception of a failed
\* load leaves procesar_directorio
LoadWav_abort ==
    /\ pc = "load"
    /\ \/ /\ audio_completo' = ruta_wav.dur
          /\ pc' = "diarize"
       \/ /\ pc' = "aborted"
          /\ UNCHANGED audio_completo
    /\ UNCHANGED <<dir_entrada, di_pipeline, tmp_deletable, archivos_audio, idx,
                   texto_diarizado_final, ruta_wav, diarization_info, turn_i,
                   storage, completed, trVars, histVars, tmp, ret, dispatches,
                   chunk_log, tmp_at_call>>

\* LoadWav that goes on to the diarizer after a failed load
LoadWav_fallthrough ==
    /\ pc = "load"
    /\ \/ audio_completo' = ruta_wav.dur
       \/ UNCHANGED audio_completo
    /\ pc' = "diarize"
    /\ UNCHANGED <<dir_entrada, di_pipeline, tmp_deletable, archivos_audio, idx,
                   texto_diarizado_final, ruta_wav, diarization_info, turn_i,
                   storage, completed, trVars, histVars, tmp, ret, dispatches,
                   chunk_log, tmp_at_call>>

\* lines 314-320
LoadWav ==
    /\ pc = "load"
    /\ \/ /\ audio_completo' = ruta_wav.dur
          /\ pc' = "diarize"
          /\ UNCHANGED <<idx, status>>
       \/ /\ SetStatus(SKIPPED, "load_failed")
          /\ idx' = idx + 1
          /\ pc' = "for_file"
          /\ UNCHANGED audio_completo
    /\ UNCHANGED <<dir_entrada, di_pipeline, tmp_deletable, archivos_audio, texto_diarizado_final,
                   ruta_wav, diarization_info, turn_i, storage, completed,
                   trVars, turn_log, save_log, tmp, ret, dispatches, chunk_log, tmp_at_call>>

\* line 323 and diarizar_audio (lines 231-252)
Diarize ==
    /\ pc = "diarize"
    /\ \/ diarization_info' = None
       \/ /\ di_pipeline
          /\ \E ts \in TurnSeqs : diarization_info' = [turns |-> ts]
    /\ pc' = "diarized"
    /\ UNCHANGED <<dir_entrada, di_pipeline, tmp_deletable, archivos_audio, idx,
                   texto_diarizado_final, ruta_wav, audio_completo, turn_i, storage, completed, trVars,
                   histVars, tmp, ret, dispatches, chunk_log, tmp_at_call>>

\* FallbackCall without forzar_chunking=True
FallbackCall_unforced ==
    /\ pc = "diarized"
    /\ diarization_info = None
    /\ Call(ruta_wav, "chunks_full", FALSE, "fallback_ret", tmp)
    /\ UNCHANGED <<pipeVars, histVars, tmp>>

\* lines 324-329: no diarization, the whole file with forced chunking
FallbackCall ==
    /\ pc = "diarized"
    /\ diarization_info = None
    /\ Call(ruta_wav, "chunks_full", TRUE, "fallback_ret", tmp)
    /\ UNCHANGED <<pipeVars, histVars, tmp>>

PLACEHOLDER == <<"SPEAKER_?", ":", " ", "[Error en transcripcion completa]", "\n">>

\* f"{speaker}: {text}\n"
Line(speaker, text) == <<speaker, ":", " ">> \o text \o <<"\n">>

\* resultado and resultado.get("text")
HasText(r) == r # None /\ r.text # <<>>

\* FallbackText that omits the output when the transcription gave no text
FallbackText_omit(r) == IF HasText(r) THEN Line("SPEAKER_?", r.text) ELSE <<>>

\* lines 330-334: the text of the file after the whole-file transcription
FallbackText(r) == IF HasText(r) THEN Line("SPEAKER_?", r.text) ELSE PLACEHOLDER

\* lines 330-334
FallbackReturn ==
    /\ pc = "fallback_ret"
    /\ texto_diarizado_final' = FallbackText(ret)
    /\ pc' = "save"
    /\ TrBlank
    /\ UNCHANGED <<dir_entrada, di_pipeline, tmp_deletable, archivos_audio, idx, ruta_wav,
                   audio_completo, diarization_info, turn_i, storage, completed,
                   histVars, tmp, ret, dispatches, chunk_log, tmp_at_call>>

\* line 338-340: the diarizer answered, enter the loop over its turns
TurnsBegin ==
    /\ pc = "diarized"
    /\ diarization_info # None
    /\ turn_i' = 0
    /\ pc' = "turn_loop"
    /\ UNCHANGED <<dir_entrada, di_pipeline, tmp_deletable, archivos_audio, idx,
                   texto_diarizado_final, ruta_wav, audio_completo, diarization_info, storage, completed,
                   trVars, histVars, tmp, ret, dispatches, chunk_log, tmp_at_call>>

TurnEntry(i, t, outcome) ==
    [i |-> i, speaker |-> t.speaker, start |-> t.start, end |-> t.end,
     outcome |-> outcome, extracted |-> FALSE, dispatched |-> 0, result |-> None]

\* line 344-345
DuracionMs(t) == ToMs(t.end) - ToMs(t.start)

\* line 350
TooShort(t) == DuracionMs(t) < MIN_TURN_MS

\* line 356: audio_completo[start_ms:end_ms], both ends clamped to the audio
SliceMs(len_ms, start_ms, end_ms) ==
    Max(0, Min(end_ms, len_ms) - Min(start_ms, len_ms))

\* lines 342-374: one turn, up to the call of the transcriber
TurnStep ==
    /\ pc = "turn_loop"
    /\ turn_i < Len(diarization_info.turns)
    /\ LET t == diarization_info.turns[turn_i + 1]
           ruta_turno_wav == TurnPath(ruta_wav.path, turn_i)
           dur == SliceMs(audio_completo, ToMs(t.start), ToMs(t.end))
           skip(outcome, extracted) ==
               /\ turn_log' = Append(turn_log,
                      [TurnEntry(turn_i, t, outcome) EXCEPT !.extracted = extracted])
               /\ turn_i' = turn_i + 1
               /\ UNCHANGED <<trVars, pc, tmp, ret, dispatches, chunk_log, tmp_at_call>>
       IN  IF TooShort(t)
           THEN skip("short", FALSE)
           ELSE \E extract_ok \in BOOLEAN, export_ok \in BOOLEAN :
                  IF ~extract_ok THEN skip("extract_failed", FALSE)
                  ELSE IF ~export_ok THEN skip("export_failed", TRUE)
                  ELSE /\ turn_log' = Append(turn_log,
                              [TurnEntry(turn_i, t, "called") EXCEPT !.extracted = TRUE])
                       /\ tmp' = tmp \cup {ruta_turno_wav}
                       /\ Call(Unit(ruta_turno_wav, WavSize(dur), dur),
                               "turn_subchunks", FALSE, "turn_ret",
                               tmp \cup {ruta_turno_wav})
                       /\ UNCHANGED turn_i
    /\ UNCHANGED <<dir_entrada, di_pipeline, tmp_deletable, archivos_audio, idx,
                   texto_diarizado_final, ruta_wav, audio_completo, diarization_info, storage, completed,
                   save_log, status>>

\* TurnText with the placeholder of line 382 written for a failed turn
TurnText_placeholder(acc, speaker, r) ==
    IF HasText(r) THEN acc \o Line(speaker, r.text)
    ELSE acc \o Line(speaker, <<"[Error en transcripcion turno]">>)

\* TurnText that puts the new line before the earlier ones
TurnText_prepend(acc, speaker, r) ==
    IF HasText(r) THEN Line(speaker, r.text) \o acc ELSE acc

\* TurnText whose line also depends on whether temporary files can be deleted
TurnText_if_deletable(acc, speaker, r) ==
    IF HasText(r) /\ tmp_deletable THEN acc \o Line(speaker, r.text) ELSE acc

\* lines 376-382: the text of the file after a turn of `speaker` gave r
TurnText(acc, speaker, r) ==
    IF HasText(r) THEN acc \o Line(speaker, r.text) ELSE acc

\* lines 376-388: the transcriber returned for the turn
TurnReturn ==
    /\ pc = "turn_ret"
    /\ LET t == diarization_info.turns[turn_i + 1]
           n == Len(turn_log)
       IN  /\ texto_diarizado_final' = TurnText(texto_diarizado_final, t.speaker, ret)
           /\ turn_log' = [turn_log EXCEPT
                 ![n].outcome = IF HasText(ret) THEN "line" ELSE "no_line",
                 ![n].dispatched = Len(dispatches),
                 ![n].result = ret]
    /\ tmp' = IF tmp_deletable THEN tmp \ {ruta_archivo_wav.path} ELSE tmp
    /\ turn_i' = turn_i + 1
    /\ pc' = "turn_loop"
    /\ TrBlank
    /\ dispatches' = <<>>
    /\ chunk_log' = <<>>
    /\ tmp_at_call' = {}
    /\ ret' = None
    /\ UNCHANGED <<dir_entrada, di_pipeline, tmp_deletable, archivos_audio, idx, ruta_wav,
                   audio_completo, diarization_info, storage, completed, save_log,
                   status>>

\* TurnsEnd that may leave the loop before its last turn
TurnsEnd_early ==
    /\ pc = "turn_loop"
    /\ turn_i <= Len(diarization_info.turns)
    /\ pc' = "save"
    /\ UNCHANGED <<pipeVars, trVars, histVars, tmp, ret, dispatches, chunk_log, tmp_at_call>>

\* the for loop over the turns is exhausted
TurnsEnd ==
    /\ pc = "turn_loop"
    /\ turn_i = Len(diarization_info.turns)
    /\ pc' = "save"
    /\ UNCHANGED <<pipeVars, trVars, histVars, tmp, ret, dispatches, chunk_log, tmp_at_call>>

\* A call of guardar_transcripcion for the file at i
SaveEntry(i, path, text, outcome) ==
    [file |-> i, path |-> path, text |-> text, outcome |-> outcome]

\* guardar_transcripcion (lines 254-272): open(ruta_salida, "w") and write;
\* any exception is caught. A failure of open leaves the storage as it was,
\* a failure of write leaves the file truncated.
WriteOutcomes == {"written", "open_failed", "write_failed"}

Stored(store, path, content) ==
    [p \in DOMAIN store \cup {path} |-> IF p = path THEN content ELSE store[p]]

GuardarTranscripcion(store, texto, base, outcome) ==
    CASE outcome = "written" -> Stored(store, RutaSalida(base), EncodeLatin1(texto))
      [] outcome = "write_failed" -> Stored(store, RutaSalida(base), <<>>)
      [] OTHER -> store

\* lines 390-394
Save ==
    /\ pc = "save"
    /\ IF texto_diarizado_final # <<>>
       THEN \E outcome \in WriteOutcomes :
              /\ storage' = GuardarTranscripcion(storage, texto_diarizado_final,
                                NombreBaseSalida(ruta_audio.name), outcome)
              /\ save_log' = Append(save_log,
                     SaveEntry(idx, RutaSalida(NombreBaseSalida(ruta_audio.name)),
                               texto_diarizado_final, outcome))
              /\ SetStatus(IF outcome = "written" THEN DONE ELSE SKIPPED,
                           IF diarization_info = None THEN "fallback" ELSE "diarized")
       ELSE /\ SetStatus(SKIPPED,
                         IF diarization_info = None THEN "fallback" ELSE "diarized")
            /\ UNCHANGED <<storage, save_log>>
    /\ idx' = idx + 1
    /\ pc' = "for_file"
    /\ ret' = None
    /\ dispatches' = <<>>
    /\ chunk_log' = <<>>
    /\ tmp_at_call' = {}
    /\ UNCHANGED <<dir_entrada, di_pipeline, tmp_deletable, archivos_audio, texto_diarizado_final,
                   ruta_wav, audio_completo, diarization_info, turn_i, completed,
                   trVars, turn_log, tmp>>

\* line 396, after the temporary directory was removed
Finish ==
    /\ pc = "for_file"
    /\ idx > Len(archivos_audio)
    /\ tmp' = {}
    /\ completed' = TRUE
    /\ pc' = "done"
    /\ UNCHANGED <<dir_entrada, di_pipeline, tmp_deletable, archivos_audio, idx,
                   texto_diarizado_final, ruta_wav, audio_completo, diarization_info, turn_i, storage,
                   trVars, histVars, ret, dispatches, chunk_log, tmp_at_call>>

\* ------------------------------------------------------------------------
\* Specifications
\* ------------------------------------------------------------------------
InitCommon ==
    /\ archivos_audio = <<>>
    /\ idx = 0
    /\ texto_diarizado_final = <<>>
    /\ ruta_wav = NoUnit
    /\ audio_completo = 0
    /\ diarization_info = None
    /\ turn_i = 0
    /\ tmp = {}
    /\ storage = <<>>
    /\ completed = FALSE
    /\ dir_temporal_chunks = ""
    /\ total_duration_ms = 0
    /\ num_chunks = 0
    /\ chunk_duration_ms = 0
    /\ chunk_i = 0
    /\ all_text = <<>>
    /\ all_segments = <<>>
    /\ last_successful_lang = ""
    /\ ret = None
    /\ dispatches = <<>>
    /\ chunk_log = <<>>
    /\ tmp_at_call = {}
    /\ turn_log = <<>>
    /\ save_log = <<>>
    /\ status = <<>>

\* A run of procesar_directorio
Init ==
    /\ InitCommon
    /\ dir_entrada \in [is_dir : BOOLEAN, files : DirListings]
    /\ di_pipeline \in BOOLEAN
    /\ tmp_deletable \in BOOLEAN
    /\ pc = "start"
    /\ ruta_archivo_wav = NoUnit
    /\ forzar_chunking = FALSE
    /\ caller = ""

Next ==
    \/ Start \/ ForFile \/ Convert \/ LoadWav \/ Diarize
    \/ FallbackCall \/ FallbackReturn
    \/ TurnsBegin \/ TurnStep \/ TurnReturn \/ TurnsEnd
    \/ Save \/ Finish
    \/ Transcribe

Spec == Init /\ [][Next]_vars

\* One call of _transcribir_wav_con_chunking_opcional on a unit of UnitInputs
InitUnit ==
    /\ InitCommon
    /\ dir_entrada = [is_dir |-> FALSE, files |-> <<>>]
    /\ di_pipeline = FALSE
    /\ tmp_deletable \in BOOLEAN
    /\ pc = "tr_entry"
    /\ ruta_archivo_wav \in UnitInputs
    /\ forzar_chunking \in BOOLEAN
    /\ caller = "unit_done"

SpecUnit == InitUnit /\ [][Transcribe]_vars

\* The run is one sequential Python process: whenever a step is possible,
\* one is taken.
FairSpec == Spec /\ WF_vars(Next)

\* ------------------------------------------------------------------------
\* Claims
\* ------------------------------------------------------------------------
\* The activation of the transcriber has returned and its caller has not yet
\* consumed the returned value.
Returned == pc \in {"unit_done", "fallback_ret", "turn_ret"}

\* C1: for a unit of at most 24 MiB (the limit included) and chunking not
\* forced, the transcriber calls the primitive exactly once, on the unit
\* itself, returns what that call returned (the result, or None), and makes
\* no chunk file.
C1_DirectSingleDispatch ==
    (Returned /\ ~forzar_chunking /\ ruta_archivo_wav.size <= 24 * 1024 * 1024)
        => /\ Len(dispatches) = 1
           /\ dispatches[1].input = ruta_archivo_wav.path
           /\ dispatches[1].size = ruta_archivo_wav.size
           /\ ret = dispatches[1].result
           /\ chunk_log = <<>>
           /\ tmp = tmp_at_call

\* A unit of exactly 24 MiB was transcribed directly and gave a result.
C1_Witness ==
    /\ pc = "unit_done"
    /\ ~forzar_chunking
    /\ ruta_archivo_wav.size = 24 * 1024 * 1024
    /\ Len(dispatches) = 1
    /\ ret # None
    /\ ret = dispatches[1].result

\* C2: a turn shorter than 100 ms (end - start, whatever the fractions of a
\* millisecond of its ends) is neither extracted nor dispatched to the
\* transcriber.
C2_ShortTurnNeverProcessed ==
    \A k \in 1..Len(turn_log) :
        (turn_log[k].end - turn_log[k].start < MIN_TURN_MS * MicrosPerMs)
            => /\ ~turn_log[k].extracted
               /\ turn_log[k].outcome \notin {"called", "line", "no_line"}
               /\ turn_log[k].dispatched = 0

\* The file before idx has just gone through lines 390-394; the history of
\* its turns and the diarizer's answer are still those of that file.
JustSaved ==
    /\ pc = "for_file"
    /\ idx - 1 \in DOMAIN status
    /\ status[idx - 1].route \in {"fallback", "diarized"}

SavesOf(i) == {k \in 1..Len(save_log) : save_log[k].file = i}

HasPlaceholder(text) ==
    \E j \in 1..Len(text) : text[j] = "[Error en transcripcion completa]"

\* C3: a diarized file none of whose turns gave a line ends in
\* SkippedWithError with no call of the storage; the placeholder line is
\* handed to the storage only on the fallback path.
C3_NoLineNoOutput ==
    /\ \A i \in DOMAIN status :
          (status[i].route = "diarized" /\ status[i].lines = 0)
              => status[i].state = SKIPPED /\ SavesOf(i) = {}
    /\ \A k \in 1..Len(save_log) :
          HasPlaceholder(save_log[k].text)
              => status[save_log[k].file].route = "fallback"

\* A diarized file with two turns, one of which failed transcription, gave no
\* line and was skipped without any write.
C3_Witness ==
    /\ JustSaved
    /\ status[idx - 1].route = "diarized"
    /\ status[idx - 1].lines = 0
    /\ status[idx - 1].state = SKIPPED
    /\ Len(turn_log) = 2
    /\ \E k \in 1..2 : turn_log[k].outcome = "no_line" /\ turn_log[k].result = None
    /\ SavesOf(idx - 1) = {}

NewLines(text) == Cardinality({j \in 1..Len(text) : text[j] = "\n"})

\* C4, as the specification states it: on the fallback path the file always ends in Done, with its
\* one line written.
C4_FallbackAlwaysWritten ==
    \A i \in DOMAIN status :
        status[i].route = "fallback"
            => /\ status[i].state = DONE
               /\ \E k \in SavesOf(i) : save_log[k].outcome = "written"

\* C4, as the code supports it: on the fallback path the storage is called exactly once for
\* the file, with exactly one line: "SPEAKER_?: <text>" when the whole-file
\* transcription gave text, the placeholder line when it failed or gave none.
\* The file is Done, and the line minus the characters that Latin-1 cannot
\* encode is the content of its output file, exactly when that write succeeds.
C4_FallbackAlwaysSaved ==
    /\ (pc = "save" /\ diarization_info = None)
          => texto_diarizado_final =
                IF ret # None /\ ret.text # <<>>
                THEN <<"SPEAKER_?", ":", " ">> \o ret.text \o <<"\n">>
                ELSE <<"SPEAKER_?", ":", " ", "[Error en transcripcion completa]", "\n">>
    /\ \A i \in DOMAIN status :
          status[i].route = "fallback"
              => /\ Cardinality(SavesOf(i)) = 1
                 /\ \A k \in SavesOf(i) :
                       /\ NewLines(save_log[k].text) = 1
                       /\ save_log[k].text[Len(save_log[k].text)] = "\n"
                       /\ save_log[k].text[1] = "SPEAKER_?"
                       /\ (status[i].state = DONE) <=> (save_log[k].outcome = "written")
    /\ (JustSaved /\ status[idx - 1].route = "fallback")
          => LET e == save_log[Len(save_log)]
             IN  /\ e.file = idx - 1
                 /\ e.outcome = "written" =>
                       storage[e.path] = SelectSeq(e.text, LAMBDA c : c # "U+20AC")

\* The whole-file transcription gave nothing and the placeholder line was
\* written.
C4_Witness ==
    /\ JustSaved
    /\ status[idx - 1].route = "fallback"
    /\ status[idx - 1].state = DONE
    /\ save_log[Len(save_log)].text =
          <<"SPEAKER_?", ":", " ", "[Error en transcripcion completa]", "\n">>
    /\ storage[save_log[Len(save_log)].path] = save_log[Len(save_log)].text

\* Every regular file of the input set has reached a terminal state.
AllFilesTerminal ==
    dir_entrada.is_dir =>
        \A i \in 1..Len(Glob(dir_entrada.files)) :
            Glob(dir_entrada.files)[i].is_file
                => i \in DOMAIN status /\ status[i].state \in {DONE, SKIPPED}

\* C5: whatever fails on whichever file (conversion, load, diarization, chunk
\* or turn export, transcription, the final write), every regular file of the
\* input set eventually reaches Done or SkippedWithError.
C5_EveryFileTerminates == <>AllFilesTerminal

\* The first file failed its conversion and the second one was still
\* processed to Done.
C5_Witness ==
    /\ pc = "done"
    /\ 1 \in DOMAIN status /\ 2 \in DOMAIN status
    /\ status[1].state = SKIPPED
    /\ status[1].route = "convert_failed"
    /\ status[2].state = DONE

\* The lines of the turns of the log that gave a non-empty text, in the
\* order of the log.
RECURSIVE LinesOfTurns(_)
LinesOfTurns(log) ==
    IF log = <<>> THEN <<>>
    ELSE LET e == Head(log)
         IN  (IF e.result # None /\ e.result.text # <<>>
              THEN <<e.speaker, ":", " ">> \o e.result.text \o <<"\n">>
              ELSE <<>>) \o LinesOfTurns(Tail(log))

\* The log of the turns follows the order in which the diarizer yielded them.
LogFollowsTurns ==
    /\ Len(turn_log) <= Len(diarization_info.turns)
    /\ \A k \in 1..Len(turn_log) :
          /\ turn_log[k].i = k - 1
          /\ turn_log[k].speaker = diarization_info.turns[k].speaker
          /\ turn_log[k].start = diarization_info.turns[k].start
          /\ turn_log[k].end = diarization_info.turns[k].end

\* C6, as the specification states it: the transcript written for a diarized file is the
\* concatenation, in the order of the turns, of one line "speaker: text" for
\* each turn whose transcription gave text.
C6_WrittenIsConcatenation ==
    (JustSaved /\ status[idx - 1].route = "diarized" /\ status[idx - 1].state = DONE)
        => storage[save_log[Len(save_log)].path] = LinesOfTurns(turn_log)

\* C6, as the code supports it: the transcript handed to the storage for a diarized file is
\* the concatenation, in the order the diarizer yielded the turns, of one
\* newline-terminated line "speaker: text" for each turn whose transcription
\* returned a non-empty text, and of nothing for every other turn (one line at
\* most per turn, also when the turn was transcribed in chunks); what is
\* written is that string without the characters that Latin-1 cannot encode.
C6_HandedIsConcatenation ==
    /\ (pc \in {"turn_loop", "save"} /\ diarization_info # None)
          => /\ LogFollowsTurns
             /\ texto_diarizado_final = LinesOfTurns(turn_log)
             /\ pc = "save" => Len(turn_log) = Len(diarization_info.turns)
    /\ (JustSaved /\ status[idx - 1].route = "diarized" /\ SavesOf(idx - 1) # {})
          => LET e == save_log[Len(save_log)]
             IN  /\ e.file = idx - 1
                 /\ e.text = LinesOfTurns(turn_log)
                 /\ NewLines(e.text) = status[idx - 1].lines
                 /\ e.outcome = "written" =>
                       storage[e.path] = SelectSeq(e.text, LAMBDA c : c # "U+20AC")

\* Two turns gave two different lines, written in the order of the turns.
C6_Witness ==
    /\ JustSaved
    /\ status[idx - 1].route = "diarized"
    /\ status[idx - 1].state = DONE
    /\ status[idx - 1].lines = 2
    /\ turn_log[1].speaker # turn_log[2].speaker
    /\ storage[save_log[Len(save_log)].path] =
          <<turn_log[1].speaker, ":", " ">> \o turn_log[1].result.text \o <<"\n">>
          \o <<turn_log[2].speaker, ":", " ">> \o turn_log[2].result.text \o <<"\n">>

\* C7: when the transcription of a turn fails, the turn adds nothing to the
\* text of the file, the lines of the earlier turns stay as they are, and the
\* loop goes on to the next turn; every turn of the file has been met when the
\* loop ends.
C7_FailedTurnDropped ==
    /\ [][(pc = "turn_ret" /\ (ret = None \/ ret.text = <<>>))
            => /\ texto_diarizado_final' = texto_diarizado_final
               /\ turn_i' = turn_i + 1
               /\ pc' = "turn_loop"]_vars
    /\ []((pc = "save" /\ diarization_info # None)
            => Len(turn_log) = Len(diarization_info.turns))

\* The first turn failed transcription, the second one was transcribed and
\* gave the only line of the file.
C7_Witness ==
    /\ pc = "save"
    /\ diarization_info # None
    /\ Len(turn_log) = 2
    /\ turn_log[1].outcome = "no_line" /\ turn_log[1].result = None
    /\ turn_log[2].outcome = "line"
    /\ texto_diarizado_final =
          <<turn_log[2].speaker, ":", " ">> \o turn_log[2].result.text \o <<"\n">>

\* The activation took the chunking path and has returned.
ChunkPathReturned ==
    /\ Returned
    /\ forzar_chunking \/ ruta_archivo_wav.size > 24 * 1024 * 1024

\* Some interval of the activation was transcribed to a non-empty text.
SomeIntervalGaveText ==
    \E k \in 1..Len(chunk_log) :
        chunk_log[k].result # None /\ chunk_log[k].result.text # <<>>

\* C8: on the chunking path the transcriber returns None exactly when no
\* interval produced any text, and never returns a result whose text is empty.
C8_FailsIffNoText ==
    ChunkPathReturned
        => /\ (ret = None) <=> ~SomeIntervalGaveText
           /\ ret # None => ret.text # <<>>

\* The segments of the intervals of the log that were transcribed, each one
\* moved by the start of its interval, in the order of the log.
RECURSIVE RebasedOf(_)
RebasedOf(log) ==
    IF log = <<>> THEN <<>>
    ELSE LET e == Head(log)
         IN  (IF e.result # None
              THEN [k \in 1..Len(e.result.segments) |->
                       [start |-> e.result.segments[k].start + e.start_ms,
                        end |-> e.result.segments[k].end + e.start_ms,
                        text |-> e.result.segments[k].text]]
              ELSE <<>>) \o RebasedOf(Tail(log))

\* start <= end within each segment, and no segment starts before the one
\* before it ends.
NonDecreasing(segs) ==
    \A k \in 1..Len(segs) :
        /\ segs[k].start <= segs[k].end
        /\ k < Len(segs) => segs[k].end <= segs[k + 1].start

\* The primitive's segments for the interval are non-decreasing and lie in
\* [0, duration of the interval).
LocalSegmentsInRange(e) ==
    e.result # None
        => /\ NonDecreasing(e.result.segments)
           /\ \A k \in 1..Len(e.result.segments) :
                 /\ 0 <= e.result.segments[k].start
                 /\ e.result.segments[k].end < e.end_ms - e.start_ms

\* C9: every segment of a result assembled from chunks has the start and the
\* end the primitive gave it plus the start of its chunk; when the segments of
\* every chunk are non-decreasing and within [0, duration of the chunk), the
\* segments of the result are non-decreasing and within [0, duration of the
\* unit).
C9_SegmentsRebased ==
    /\ pc = "tr_loop" => all_segments = RebasedOf(chunk_log)
    /\ (ChunkPathReturned /\ ret # None)
          => /\ ret.segments = RebasedOf(chunk_log)
             /\ (\A k \in 1..Len(chunk_log) : LocalSegmentsInRange(chunk_log[k]))
                   => /\ NonDecreasing(ret.segments)
                      /\ \A k \in 1..Len(ret.segments) :
                            /\ 0 <= ret.segments[k].start
                            /\ ret.segments[k].end < ruta_archivo_wav.dur

\* A unit of three chunks, each transcribed with two segments in range: six
\* segments, the last one ending one millisecond before the end of the unit.
C9_Witness ==
    /\ pc = "unit_done"
    /\ num_chunks = 3
    /\ ret # None
    /\ Len(ret.segments) = 6
    /\ \A k \in 1..Len(chunk_log) : LocalSegmentsInRange(chunk_log[k])
    /\ ret.segments[3].start = chunk_duration_ms
    /\ ret.segments[6].end = ruta_archivo_wav.dur - 1

IntervalLength(e) == e.end_ms - e.start_ms

\* C10: the intervals of the chunk loop are met in order, none is empty, the
\* first starts at 0, each starts where the one before it ends (so no two
\* overlap and there is no gap), all but the last have the same length, and
\* the last, which takes the remainder of the division, ends at the duration
\* of the unit.
C10_IntervalsPartition ==
    num_chunks > 0
        => LET n == Len(chunk_log)
           IN  /\ n <= num_chunks
               /\ n = chunk_i
               /\ \A k \in 1..n :
                     /\ chunk_log[k].i = k - 1
                     /\ chunk_log[k].start_ms < chunk_log[k].end_ms
                     /\ k = 1 => chunk_log[k].start_ms = 0
                     /\ k < n => chunk_log[k].end_ms = chunk_log[k + 1].start_ms
                     /\ k < num_chunks
                           => IntervalLength(chunk_log[k]) = IntervalLength(chunk_log[1])
                     /\ k = num_chunks
                           => /\ chunk_log[k].end_ms = ruta_archivo_wav.dur
                              /\ IntervalLength(chunk_log[k]) >= IntervalLength(chunk_log[1])
               /\ \A j, k \in 1..n :
                     j < k => chunk_log[j].end_ms <= chunk_log[k].start_ms
               /\ Returned => n = num_chunks

\* A unit of three chunks whose duration is no multiple of 3: the last
\* interval is longer than the others.
C10_Witness ==
    /\ pc = "unit_done"
    /\ num_chunks = 3
    /\ Len(chunk_log) = 3
    /\ chunk_log[3].end_ms = ruta_archivo_wav.dur
    /\ IntervalLength(chunk_log[3]) > IntervalLength(chunk_log[1])
    /\ IntervalLength(chunk_log[2]) = IntervalLength(chunk_log[1])

\* C11: when the processing of a file begins (line 302, nothing has been
\* made for it yet) the temporary directory holds no artifact of the files
\* before it: no converted WAV, no turn WAV, no chunk WAV.
C11_NoArtifactOfEarlierFile ==
    pc = "convert" => tmp = {}

AfterNormalize ==
    pc \in {"diarize", "diarized", "fallback_ret", "turn_loop", "turn_ret", "save",
            "tr_entry", "tr_loop"}

NormalizeFailed(route) == route \in {"convert_failed", "load_failed"}

\* C13: a file whose conversion or whose load of the converted WAV fails ends
\* in SkippedWithError at once: the diarizer and everything after it are
\* reached only with a converted and loaded WAV, the step that fails goes
\* straight to the next file without any dispatch or write, and nothing is
\* ever written for the file.
C13_NormalizeFailureSkips ==
    /\ [](/\ pc \in {"convert", "load"}
             => /\ diarization_info = None
                /\ dispatches = <<>>
                /\ turn_log = <<>>
                /\ texto_diarizado_final = <<>>
                /\ SavesOf(idx) = {}
          /\ AfterNormalize
             => /\ ruta_wav # NoUnit
                /\ ruta_wav.path = WavPath(ruta_audio.name)
                /\ audio_completo = ruta_wav.dur
          /\ \A i \in DOMAIN status :
                NormalizeFailed(status[i].route)
                    => /\ status[i].state = SKIPPED
                       /\ status[i].lines = 0
                       /\ SavesOf(i) = {})
    /\ [][(pc \in {"convert", "load"})
            => \/ pc' \in {"load", "diarize"} /\ UNCHANGED <<idx, status>>
               \/ /\ pc' = "for_file"
                  /\ idx' = idx + 1
                  /\ idx \in DOMAIN status'
                  /\ NormalizeFailed(status'[idx].route)
                  /\ UNCHANGED <<storage, save_log, dispatches, diarization_info>>
                  /\ status'[idx].route = "convert_failed" <=> pc = "convert"]_vars

\* The load of the first file's WAV failed, the file was skipped with nothing
\* written, and the second file was processed to Done.
C13_Witness ==
    /\ pc = "done"
    /\ 1 \in DOMAIN status /\ 2 \in DOMAIN status
    /\ status[1].route = "load_failed"
    /\ status[1].state = SKIPPED
    /\ SavesOf(1) = {}
    /\ status[2].state = DONE
    /\ Len(save_log) = 1

\* C14: when the diarizer gives nothing for a file, because the pipeline was
\* never initialized or because it raised on the file, the file is
\* transcribed whole with forced chunking: the next step is the call of the
\* transcriber on the converted WAV with forzar_chunking = True, no turn is
\* extracted or transcribed for the file, and the run goes on (the file gets
\* a terminal state like any other).
C14_NoDiarizerFallsBack ==
    /\ []((~di_pipeline /\ AfterNormalize /\ pc # "diarize") => diarization_info = None)
    /\ [][(pc = "diarized" /\ diarization_info = None)
            => /\ pc' = "tr_entry"
               /\ ruta_archivo_wav' = ruta_wav
               /\ forzar_chunking'
               /\ UNCHANGED <<turn_log, turn_i, idx, status>>
               /\ caller' = "fallback_ret"]_vars
    /\ [](caller = "fallback_ret"
            => /\ forzar_chunking
               /\ ruta_archivo_wav = ruta_wav
               /\ diarization_info = None)
    /\ []((pc \in {"turn_loop", "turn_ret"} \/ caller = "turn_ret")
            => diarization_info # None)
    /\ []((AfterNormalize /\ pc # "diarize" /\ diarization_info = None)
            => turn_log = <<>>)
    /\ [](\A i \in DOMAIN status : status[i].route = "fallback" => status[i].lines = 0)

\* The pipeline was initialized but gave nothing for the file; the file
\* was transcribed whole and its one line written.
C14_Witness ==
    /\ pc = "done"
    /\ di_pipeline
    /\ 1 \in DOMAIN status
    /\ status[1].route = "fallback"
    /\ status[1].state = DONE
    /\ save_log[1].text[1] = "SPEAKER_?"
    /\ ~HasPlaceholder(save_log[1].text)

\* What the answers recorded in the log of the chunk loop give when they are
\* accumulated in the order of the log: the text and the language.
RECURSIVE TextOfChunks(_)
TextOfChunks(log) ==
    IF log = <<>> THEN <<>>
    ELSE LET n == Len(log)
             before == TextOfChunks(SubSeq(log, 1, n - 1))
         IN  IF log[n].result # None
             THEN before \o log[n].result.text \o <<" ">>
             ELSE before

RECURSIVE LangOfChunks(_)
LangOfChunks(log) ==
    IF log = <<>> THEN "unknown"
    ELSE LET n == Len(log)
         IN  IF log[n].result # None THEN log[n].result.language
             ELSE LangOfChunks(SubSeq(log, 1, n - 1))

\* The answers of the primitive to the chunks that were dispatched, in order.
RECURSIVE AnswersOfChunks(_)
AnswersOfChunks(log) ==
    IF log = <<>> THEN <<>>
    ELSE (IF Head(log).outcome = "dispatched" THEN <<Head(log).result>> ELSE <<>>)
         \o AnswersOfChunks(Tail(log))

\* The value an activation of the transcriber returns, as a function of the
\* unit, of forzar_chunking, and of what the primitive and the filesystem
\* answered to the activation.
ResultOfLogs ==
    IF ~forzar_chunking /\ ruta_archivo_wav.size <= 24 * 1024 * 1024
    THEN dispatches[1].result
    ELSE IF TextOfChunks(chunk_log) = <<>> THEN None
    ELSE [text |-> Strip(TextOfChunks(chunk_log)),
          segments |-> RebasedOf(chunk_log),
          language |-> LangOfChunks(chunk_log)]

\* The text of a diarized file after its first n turns, as a function of the
\* turns the diarizer yielded, of whether the WAV of each turn could be
\* extracted and exported (oks), and of what the transcriber returned for
\* each turn (results).
RECURSIVE RunLines(_, _, _, _)
RunLines(turns, oks, results, n) ==
    IF n = 0 THEN <<>>
    ELSE LET before == RunLines(turns, oks, results, n - 1)
             t == turns[n]
         IN  IF ToMs(t.end) - ToMs(t.start) >= 100 /\ oks[n] /\ HasText(results[n])
             THEN before \o <<t.speaker, ":", " ">> \o results[n].text \o <<"\n">>
             ELSE before

TurnOk(e) == e.outcome \notin {"extract_failed", "export_failed"}

\* C15, as the specification states it: a second run on the same file in
\* which the diarizer yields the same turns and the transcription returns the
\* same result for every turn gives the same lines as this run, whatever
\* else happens in it (here: whichever turn WAVs it manages to export).
C15_SameAnswersSameLines ==
    (pc = "save" /\ diarization_info # None)
        => LET n == Len(diarization_info.turns)
               results == [k \in 1..n |-> turn_log[k].result]
           IN  \A oks2 \in [1..n -> BOOLEAN] :
                  RunLines(diarization_info.turns, oks2, results, n)
                      = texto_diarizado_final

\* C15, as the code supports it: the value the transcriber returns, the
\* lines of a file and its terminal state are functions of what the
\* collaborators answered (normalizer, diarizer, primitive) together with
\* the outcomes of the filesystem operations of the run (load of the WAV for
\* chunking, extraction and export of turn and chunk WAVs, the final write):
\* two runs in which all of these agree end in the same state with the same
\* lines.
C15_OutcomeIsFunctionOfAnswers ==
    /\ Returned
          => /\ ret = ResultOfLogs
             /\ AnswersOfChunks(chunk_log) =
                   [k \in 1..Len(AnswersOfChunks(chunk_log)) |-> dispatches[k].result]
    /\ (pc \in {"turn_loop", "save"} /\ diarization_info # None)
          => texto_diarizado_final =
                RunLines(diarization_info.turns,
                         [k \in 1..Len(turn_log) |-> TurnOk(turn_log[k])],
                         [k \in 1..Len(turn_log) |-> turn_log[k].result],
                         Len(turn_log))
    /\ (pc = "save" /\ diarization_info = None)
          => texto_diarizado_final =
                IF HasText(ret)
                THEN <<"SPEAKER_?", ":", " ">> \o ret.text \o <<"\n">>
                ELSE <<"SPEAKER_?", ":", " ", "[Error en transcripcion completa]", "\n">>
    /\ JustSaved
          => LET i == idx - 1
             IN  /\ (SavesOf(i) # {}) <=> (texto_diarizado_final # <<>>)
                 /\ \A k \in SavesOf(i) :
                       /\ save_log[k].text = texto_diarizado_final
                       /\ status[i].state =
                             IF save_log[k].outcome = "written" THEN DONE ELSE SKIPPED
                 /\ SavesOf(i) = {} => status[i].state = SKIPPED

\* Of two turns, the WAV of the first could not be exported and the second
\* gave the only line of the file.
C15_Witness ==
    /\ pc = "save"
    /\ diarization_info # None
    /\ Len(turn_log) = 2
    /\ turn_log[1].outcome = "export_failed"
    /\ turn_log[2].outcome = "line"
    /\ texto_diarizado_final =
          <<turn_log[2].speaker, ":", " ">> \o turn_log[2].result.text \o <<"\n">>

\* C16: the output file of an input file is named by the input name with
\* its last extension alone replaced by ".diarized.txt", also when the rest
\* of the name holds a dot (a.b.mp3 gives a.b.diarized.txt).
C16_OutputNamedByStem ==
    \A k \in 1..Len(save_log) :
        LET name == archivos_audio[save_log[k].file].name
        IN  save_log[k].path = SubSeq(name, 1, Len(name) - 1) \o <<"diarized", "txt">>

\* C17: no two input files of a run are written to the same output file, so
\* the transcript written for one is never overwritten by the transcript of
\* another.
C17_OwnOutputFile ==
    \A j, k \in 1..Len(save_log) :
        (j < k /\ save_log[j].outcome = "written" /\ save_log[k].outcome # "open_failed")
            => save_log[j].path # save_log[k].path

\* C18: every run of procesar_directorio ends with the report "Proceso
\* completado." (line 396).
C18_AlwaysCompletes == <>completed

\* C19: in the chunk loop every interval is met once and dispatched at most
\* once; an interval whose export or whose call of the primitive fails leaves
\* the accumulated text, segments and language as they were, and the loop
\* goes on to the next interval, until all of them have been met.
C19_FailedIntervalSkipped ==
    /\ [][(pc = "tr_loop" /\ chunk_i < num_chunks)
            => LET last == chunk_log'[Len(chunk_log')]
               IN  /\ chunk_i' = chunk_i + 1
                   /\ pc' = "tr_loop"
                   /\ chunk_log' = Append(chunk_log, last)
                   /\ last.i = chunk_i
                   /\ \/ dispatches' = dispatches /\ last.outcome # "dispatched"
                      \/ /\ last.outcome = "dispatched"
                         /\ dispatches' = Append(dispatches, dispatches'[Len(dispatches')])
                         /\ dispatches'[Len(dispatches')].result = last.result
                         /\ dispatches'[Len(dispatches')].input =
                               <<dir_temporal_chunks, ruta_archivo_wav.path, "chunk",
                                 chunk_i + 1>>
                   /\ last.result = None
                         => (all_text' = all_text /\ all_segments' = all_segments
                             /\ last_successful_lang' = last_successful_lang)]_vars
    /\ [](num_chunks > 0
            => /\ Len(dispatches) <= Len(chunk_log)
               /\ Len(chunk_log) <= num_chunks
               /\ \A j, k \in 1..Len(dispatches) :
                     j # k => dispatches[j].input # dispatches[k].input
               /\ Returned => Len(chunk_log) = num_chunks)

\* Of three intervals the first failed at the primitive, the second at its
\* export, and the third was still dispatched and gave the text of the result.
C19_Witness ==
    /\ pc = "unit_done"
    /\ Len(chunk_log) = 3
    /\ chunk_log[1].outcome = "dispatched" /\ chunk_log[1].result = None
    /\ chunk_log[2].outcome = "export_failed"
    /\ chunk_log[3].outcome = "dispatched" /\ chunk_log[3].result # None
    /\ Len(dispatches) = 2
    /\ ret # None
    /\ ret.text = Strip(chunk_log[3].result.text)

\* C20: when the chunk loop is set up the number of chunks is
\* max(1, ceil(size / limit)): a unit of at most the limit (chunking forced)
\* is one chunk covering its whole duration, a unit above the limit and of at
\* most twice the limit is two chunks. The loop is not set up, and None is
\* returned with no chunk made, only when the WAV cannot be loaded or its
\* chunk duration is 0 (lines 128-147).
C20_NumChunks ==
    LET size == ruta_archivo_wav.size
        limit == 24 * 1024 * 1024
        quotient == (size + limit - 1) \div limit
    IN  /\ (pc = "tr_loop" \/ (Returned /\ num_chunks > 0))
              => /\ num_chunks = IF quotient > 1 THEN quotient ELSE 1
                 /\ size <= limit
                       => /\ forzar_chunking
                          /\ num_chunks = 1
                          /\ chunk_duration_ms = ruta_archivo_wav.dur
                          /\ \A k \in 1..Len(chunk_log) :
                                /\ chunk_log[k].start_ms = 0
                                /\ chunk_log[k].end_ms = ruta_archivo_wav.dur
                 /\ (size > limit /\ size <= 2 * limit) => num_chunks = 2
                 /\ Returned => Len(chunk_log) = num_chunks
        /\ (ChunkPathReturned /\ num_chunks = 0)
              => ret = None /\ chunk_log = <<>> /\ dispatches = <<>>

\* The file of 30 MiB and 10 minutes was transcribed in two chunks of 5
\* minutes.
C20_Witness ==
    /\ pc = "unit_done"
    /\ ruta_archivo_wav.size = 30 * 1024 * 1024
    /\ num_chunks = 2
    /\ Len(chunk_log) = 2
    /\ chunk_log[1].end_ms = 300000
    /\ chunk_log[2].end_ms = 600000
    /\ Len(dispatches) = 2

\* The results of the intervals of the log that were transcribed, in the
\* order of the log.
RECURSIVE SuccessfulResults(_)
SuccessfulResults(log) ==
    IF log = <<>> THEN <<>>
    ELSE (IF Head(log).result # None THEN <<Head(log).result>> ELSE <<>>)
         \o SuccessfulResults(Tail(log))

\* " ".join(texts)
RECURSIVE JoinSpaces(_)
JoinSpaces(results) ==
    IF results = <<>> THEN <<>>
    ELSE IF Len(results) = 1 THEN results[1].text
    ELSE results[1].text \o <<" ">> \o JoinSpaces(Tail(results))

\* C21, as the specification states it: the text of a result of the chunking
\* path is the texts of the intervals that were transcribed, in their order,
\* joined by single spaces.
C21_TextIsJoin ==
    (ChunkPathReturned /\ ret # None)
        => ret.text = JoinSpaces(SuccessfulResults(chunk_log))

\* C21, as the code supports it: the text of a result of the chunking path
\* is the texts of the intervals that were transcribed, in their order,
\* joined by single spaces, with the whitespace at both ends of the whole
\* removed (line 192); nothing of a failed or skipped interval is in it.
C21_TextIsStrippedJoin ==
    /\ (ChunkPathReturned /\ ret # None)
          => ret.text = Strip(JoinSpaces(SuccessfulResults(chunk_log)))
    /\ pc = "tr_loop"
          => all_text = IF SuccessfulResults(chunk_log) = <<>> THEN <<>>
                        ELSE JoinSpaces(SuccessfulResults(chunk_log)) \o <<" ">>

\* Of three intervals the first gave "a", the second failed and the third
\* gave " b" and a third character: the text is the first and the third,
\* in that order, with the joining space between them.
C21_Witness ==
    /\ pc = "unit_done"
    /\ Len(chunk_log) = 3
    /\ chunk_log[1].result # None /\ chunk_log[1].result.text = <<"a">>
    /\ chunk_log[2].result = None
    /\ chunk_log[3].result # None /\ chunk_log[3].result.text = <<" ", "b", "U+20AC">>
    /\ ret # None
    /\ ret.text = <<"a", " ", " ", "b", "U+20AC">>

\* C22: the language of a result of the chunking path is the language the
\* primitive reported for the last interval, in interval order, that was
\* transcribed; during the loop the language kept is that of the last
\* interval transcribed so far ("unknown" before the first).
C22_LanguageOfLastSuccess ==
    LET results == SuccessfulResults(chunk_log)
        expected == IF results = <<>> THEN "unknown"
                    ELSE results[Len(results)].language
    IN  /\ pc = "tr_loop" => last_successful_lang = expected
        /\ (ChunkPathReturned /\ ret # None)
              => results # <<>> /\ ret.language = expected

\* The first interval reported "en", the second "es", the third failed: the
\* language of the result is "es".
C22_Witness ==
    /\ pc = "unit_done"
    /\ Len(chunk_log) = 3
    /\ chunk_log[1].result # None /\ chunk_log[1].result.language = "en"
    /\ chunk_log[2].result # None /\ chunk_log[2].result.language = "es"
    /\ chunk_log[3].result = None
    /\ ret # None
    /\ ret.language = "es"

DispatchedEntries(log) ==
    Cardinality({k \in 1..Len(log) : log[k].outcome = "dispatched"})

PreviousFilesTerminal ==
    /\ \A j \in 1..Len(archivos_audio) :
          (j < idx /\ archivos_audio[j].is_file) => j \in DOMAIN status
    /\ \A j \in DOMAIN status : j < idx

\* The storage writes are those of files before idx, in the order of the
\* input set, at most one per file.
SavesInOrder ==
    /\ \A k \in 1..Len(save_log) : save_log[k].file < idx
    /\ \A j, k \in 1..Len(save_log) : j < k => save_log[j].file < save_log[k].file

\* The turns were taken in increasing index order, and only the last one of
\* the log can be waiting for the transcriber.
TurnsInOrder ==
    /\ \A k \in 1..Len(turn_log) :
          /\ turn_log[k].i = k - 1
          /\ turn_log[k].outcome = "called"
                => /\ k = Len(turn_log)
                   /\ k = turn_i + 1
                   /\ pc \in {"tr_entry", "tr_loop", "turn_ret"}
                   /\ caller = "turn_ret"
    /\ Len(turn_log) \in {turn_i, turn_i + 1}

IsDispatched(entry) == entry.outcome = "dispatched"

\* The entries of the log whose interval was dispatched, in the order of the log.
DispatchedChunks(log) == SelectSeq(log, IsDispatched)

\* The intervals of the unit were taken in increasing index order, and until
\* the caller has taken the result the dispatches of the chunk path are those
\* of the log, in its order.
ChunksInOrder ==
    /\ \A k \in 1..Len(chunk_log) : chunk_log[k].i = k - 1
    /\ pc = "tr_loop" => Len(chunk_log) = chunk_i
    /\ (chunk_log # <<>> /\ ruta_archivo_wav # NoUnit) =>
          /\ Len(dispatches) = Len(DispatchedChunks(chunk_log))
          /\ \A k \in 1..Len(dispatches) :
                dispatches[k].input =
                    ChunkFilename(dir_temporal_chunks, ruta_archivo_wav.path,
                                  DispatchedChunks(chunk_log)[k].i)

\* C25: processing is strictly sequential. While a file is normalized,
\* diarized, transcribed or written, every regular file before it has reached
\* its terminal state and no later file has started; the writes follow the
\* order of the input set; within a file the turns, and within a unit the
\* chunks, are taken in increasing index order; a step makes at most one
\* dispatch, and at most one turn is waiting for the transcriber.
C25_StrictlySequential ==
    /\ [](PreviousFilesTerminal /\ SavesInOrder /\ TurnsInOrder /\ ChunksInOrder)
    /\ [][/\ Len(dispatches') <= Len(dispatches) + 1
          /\ Len(chunk_log') <= Len(chunk_log) + 1
          /\ Len(turn_log') <= Len(turn_log) + 1
          /\ Len(save_log') <= Len(save_log) + 1
          /\ (idx' # idx) => (idx' = idx + 1 /\ pc' \in {"for_file", "returned"})]_vars

\* The first file is done and written; the second file, whose first turn gave
\* a line, has the one dispatch of its second turn answered and not yet used.
C25_Witness ==
    /\ idx = 2
    /\ 1 \in DOMAIN status /\ status[1].state = DONE
    /\ Len(save_log) = 1
    /\ pc = "turn_ret"
    /\ turn_i = 1
    /\ Len(turn_log) = 2
    /\ turn_log[1].outcome = "line"
    /\ turn_log[2].outcome = "called"
    /\ Len(dispatches) = 1
    /\ ret # None

\* C26: when the unit is larger than the byte budget, every chunk dispatched
\* to the primitive, header included, is no larger than the budget.
C26_ChunksWithinBudget ==
    (ruta_archivo_wav.size > WHISPER_API_LIMIT_BYTES /\ chunk_log # <<>>)
        => \A k \in 1..Len(dispatches) :
              dispatches[k].size <= WHISPER_API_LIMIT_BYTES

\* The complete lines of a text: each runs up to and including its "\n";
\* what follows the last "\n" is not a line.
RECURSIVE SplitLines(_, _)
SplitLines(text, current) ==
    IF text = <<>> THEN <<>>
    ELSE IF Head(text) = "\n"
         THEN <<Append(current, "\n")>> \o SplitLines(Tail(text), <<>>)
         ELSE SplitLines(Tail(text), Append(current, Head(text)))

\* The text is made of complete lines only: it ends where its last line ends.
EndsWithNewline(text) == text # <<>> /\ text[Len(text)] = "\n"

\* The line is "speaker: body\n" with a body that is not empty.
IsLineOf(line, speaker, body) ==
    /\ body # <<>>
    /\ Len(line) = Len(body) + 4
    /\ line[1] = speaker /\ line[2] = ":" /\ line[3] = " "
    /\ SubSeq(line, 4, Len(line) - 1) = body
    /\ line[Len(line)] = "\n"

IsLineTurn(entry) == entry.outcome = "line"

\* C27: every transcript handed to the storage is the text the file has when
\* its turns are over, it is not empty and made of complete lines only. For a
\* diarized file the lines are, one for one, those of the turns that gave a
\* line: the speaker is the one the diarizer yielded for the turn, the text is
\* the non-empty text the transcriber returned for it, and no line is a
\* "SPEAKER_?" line. For a file that was not diarized the transcript is the
\* single "SPEAKER_?" line.
C27_TranscriptWellFormed ==
    /\ []((pc = "save" /\ texto_diarizado_final # <<>>) =>
            LET lines == SplitLines(texto_diarizado_final, <<>>)
                given == SelectSeq(turn_log, IsLineTurn)
            IN  /\ EndsWithNewline(texto_diarizado_final)
                /\ Len(lines) >= 1
                /\ IF diarization_info # None
                   THEN /\ Len(lines) = Len(given)
                        /\ \A k \in 1..Len(lines) :
                              /\ given[k].result # None
                              /\ IsLineOf(lines[k], given[k].speaker,
                                          given[k].result.text)
                              /\ given[k].speaker =
                                    diarization_info.turns[given[k].i + 1].speaker
                              /\ lines[k][1] # "SPEAKER_?"
                   ELSE /\ Len(lines) = 1
                        /\ lines[1][1] = "SPEAKER_?"
                        /\ turn_log = <<>>
                        /\ IsLineOf(lines[1], "SPEAKER_?",
                              IF ret # None /\ ret.text # <<>> THEN ret.text
                              ELSE <<"[Error en transcripcion completa]">>))
    /\ [][(save_log' # save_log) =>
            /\ pc = "save"
            /\ texto_diarizado_final # <<>>
            /\ save_log' = Append(save_log, save_log'[Len(save_log')])
            /\ save_log'[Len(save_log')].text = texto_diarizado_final]_vars
    /\ [](\A k \in 1..Len(save_log) :
            LET lines == SplitLines(save_log[k].text, <<>>)
            IN  /\ EndsWithNewline(save_log[k].text)
                /\ Len(lines) >= 1
                /\ (\E j \in 1..Len(lines) : lines[j][1] = "SPEAKER_?")
                      => Len(lines) = 1)

\* Both files were handed to the storage: the first, not diarized and not
\* transcribed, as the single "SPEAKER_?" line; the second as the two lines
\* of its two turns.
C27_Witness ==
    /\ pc = "for_file"
    /\ Len(save_log) = 2
    /\ save_log[1].text = PLACEHOLDER
    /\ Len(SplitLines(save_log[2].text, <<>>)) = 2
    /\ Len(turn_log) = 2
    /\ turn_log[1].speaker # turn_log[2].speaker
    /\ SplitLines(save_log[2].text, <<>>)[1][1] = turn_log[1].speaker
    /\ SplitLines(save_log[2].text, <<>>)[2][1] = turn_log[2].speaker

====
